---- MODULE Spec2Model ----
(***************************************************************************)
(* The socket relay of anonyChat (src/backend/server.js): the connection   *)
(* registry connectedClients, the typing tracker typingUsers and the five  *)
(* socket handlers, with the socket.io transport they emit through.        *)
(*                                                                         *)
(* Representation of JavaScript values                                     *)
(*   - a payload is a record holding exactly the keys the client sent; a   *)
(*     key that is not in the record's DOMAIN destructures to undefined;   *)
(*   - a string used only for its length and its whitespace is a record    *)
(*     [lead, core, trail]: lead whitespace characters, then core          *)
(*     characters of which the first and the last are not whitespace, then *)
(*     trail whitespace characters.  A string of whitespace only has       *)
(*     core = 0 and trail = 0.  A message value that is not a string has   *)
(*     str = FALSE;                                                        *)
(*   - an alias or a clientId is a TLA+ string; Undefined stands for the   *)
(*     JavaScript value undefined stored in an object field.               *)
(***************************************************************************)
EXTENDS Integers, Sequences, FiniteSets, TLC

VARIABLES
    open,              \* socket ids the transport holds as connected
    connectedClients,  \* Map socket.id -> session
    typingUsers,       \* Map socket.id -> {alias, clientId}
    userColor,         \* the userColor constant of each socket's listeners
    now,               \* the wall clock read by Date.now() / new Date()
    last,              \* the inbound event handled by the latest handler run
    sent,              \* what that handler run submitted to the transport
    inbox,             \* per socket, the typing events sent, not yet handled
    wire,              \* per socket, the events submitted, not yet observed
    seen,              \* per client, the events it has observed, in order
    typed,             \* per client, the isTyping flags it has sent, in order
    issued             \* the ids of the chat messages broadcast so far

(* the transport's queues, the clients' logs and the history of ids *)
ext == <<inbox, wire, seen, typed, issued>>

vars ==
    <<open, connectedClients, typingUsers, userColor, now, last, sent,
      inbox, wire, seen, typed, issued>>

----------------------------------------------------------------------------
(* Bounds *)

MaxTime == 1
MaxTyped == 2   \* typing events one client sends

MaxRand == 1

(* Program constants *)

MaxMessageLength == 1000

----------------------------------------------------------------------------
(* Input domains *)

ConnIds == {"s1", "s2"}

Times == 0..MaxTime

Rands == 0..MaxRand

Hues == {0, 359}

Placeholders == {"User1000"}

Undefined == "<undefined>"

Str(l, c, t) == [str |-> TRUE, lead |-> l, core |-> c, trail |-> t]

NotAString == [str |-> FALSE, lead |-> 0, core |-> 0, trail |-> 0]

Messages ==
    { Str(0, 0, 0), Str(2, 0, 0),
      Str(0, 2, 0), Str(1, 2, 1),
      Str(0, MaxMessageLength, 0), Str(1, MaxMessageLength - 2, 1),
      Str(0, MaxMessageLength + 1, 0), Str(1, MaxMessageLength - 1, 1),
      NotAString }

PayloadAliases == {"", "Bob"}

(* a payload field that may be left out: no key, or the key with one value *)
Field(k, vals) == {<<>>} \cup {[x \in {k} |-> v] : v \in vals}

Has(d, k) == k \in DOMAIN d

(* destructuring: const { k } = d *)
Get(d, k) == IF Has(d, k) THEN d[k] ELSE Undefined

(* the toISOString() rendering of the clock reading t *)
Iso(t) == [iso |-> t]

(* Date.now().toString() + Math.random().toString(36).substr(2, 9) *)
MsgId(t, r) == [ms |-> t, suffix |-> r]

(* what a chat payload carries besides message and alias: nothing, an empty
   clientId, or a clientId (any string of the client's choosing, here one
   that is also the id of a socket) together with an id and a timestamp of
   the client's making *)
Extras ==
    {<<>>, [clientId |-> ""],
     [clientId |-> "s2", id |-> MsgId(0, 0), timestamp |-> Iso(0)]}

ChatPayloads ==
    { m @@ a @@ x :
        m \in Field("message", Messages),
        a \in Field("alias", PayloadAliases),
        x \in Extras }

TypingPayloads ==
    { t @@ e :
        t \in Field("isTyping", BOOLEAN),
        e \in {<<>>, [alias |-> "Bob", clientId |-> "s2"]} }

AliasPayloads == Field("alias", PayloadAliases)

----------------------------------------------------------------------------
(* JavaScript helpers *)

(* String.prototype.length *)
Length(s) == s.lead + s.core + s.trail

(* a slip: trimStart, the trailing whitespace stays *)
TrimStartOnly(s) == Str(0, s.core, s.trail)

(* String.prototype.trim *)
Trim(s) == Str(0, s.core, 0)

(* truthiness of a string-or-undefined value *)
Truthy(v) == v # Undefined /\ v # ""

(* !message, for a message string, a non-string or a missing key *)
NoMessage(d) == ~Has(d, "message") \/ (d.message.str /\ Length(d.message) = 0)

(* Map.prototype.set / delete / size *)
MapSet(m, k, v) == [x \in (DOMAIN m) \cup {k} |-> IF x = k THEN v ELSE m[x]]

MapDelete(m, k) == [x \in (DOMAIN m) \ {k} |-> m[x]]

MapSize(m) == Cardinality(DOMAIN m)

(* `hsl(${hue}, 70%, 65%)` *)
Hsl(h) == <<"hsl", h, 70, 65>>

----------------------------------------------------------------------------
(* socket.io transport: who an emit is submitted to *)

(* io.emit(ev, data): every socket of the namespace *)
IoEmit(sockets, ev, data) == [to |-> sockets, ev |-> ev, data |-> data]

(* socket.emit(ev, data): this socket only *)
SocketEmit(c, ev, data) == [to |-> {c}, ev |-> ev, data |-> data]

(* a slip: io.emit where socket.broadcast.emit is meant *)
BroadcastEmitToAll(sockets, c, ev, data) ==
    [to |-> sockets, ev |-> ev, data |-> data]

(* socket.broadcast.emit(ev, data): every socket of the namespace but this *)
BroadcastEmit(sockets, c, ev, data) ==
    [to |-> sockets \ {c}, ev |-> ev, data |-> data]

Handled(ev, c, d) == [ev |-> ev, conn |-> c, data |-> d]

----------------------------------------------------------------------------
Init ==
    /\ open = {}
    /\ connectedClients = <<>>
    /\ typingUsers = <<>>
    /\ userColor = <<>>
    /\ now = 0
    /\ last = Handled("none", "", <<>>)
    /\ sent = <<>>
    /\ inbox = [c \in ConnIds |-> <<>>]
    /\ wire = [c \in ConnIds |-> <<>>]
    /\ seen = [c \in ConnIds |-> <<>>]
    /\ typed = [c \in ConnIds |-> <<>>]
    /\ issued = {}

(* the event loop is between two listener runs: Node runs one listener at a
   time, to completion *)
Idle == last.ev = "none"

(* a listener has thrown and nothing caught it: the Node process has ended *)
Crashed == last.ev = "uncaughtException"

(* the listener returns to the event loop; the transport has taken over what
   it submitted *)
Return ==
    /\ ~Idle
    /\ ~Crashed
    /\ last' = Handled("none", "", <<>>)
    /\ sent' = <<>>
    /\ UNCHANGED <<open, connectedClients, typingUsers, userColor, now>>
    /\ UNCHANGED ext

(* the wall clock advances between two listener runs *)
Tick ==
    /\ Idle
    /\ now < MaxTime
    /\ now' = now + 1
    /\ UNCHANGED <<open, connectedClients, typingUsers, userColor, last, sent>>
    /\ UNCHANGED ext

(* the body of the connection listener, with the socket added to the
   namespace *)
ConnectionListener(c) ==
    /\ \E hue \in Hues, ph \in Placeholders :
         /\ open' = open \cup {c}
         /\ userColor' = MapSet(userColor, c, Hsl(hue))
         /\ connectedClients' =
              MapSet(connectedClients, c,
                     [id |-> c, color |-> Hsl(hue), connectedAt |-> now,
                      alias |-> ph])
         /\ sent' =
              << IoEmit(open', "user count", MapSize(connectedClients')),
                 BroadcastEmit(open', c, "user joined",
                     [id |-> c, message |-> "A new user joined the chat",
                      timestamp |-> Iso(now)]) >>
    /\ last' = Handled("connection", c, <<>>)
    /\ UNCHANGED <<typingUsers, now>>

(* io.on('connection'): socket.io has added the socket to the namespace and
   joined it to its own room before the listener runs *)
Connection(c) ==
    /\ Idle
    /\ c \notin open
    /\ ConnectionListener(c)
    /\ UNCHANGED ext

(* a slip: alias || 'Anonymous', the session's alias forgotten *)
ResolveAliasNoSession(alias, clients, c) ==
    IF Truthy(alias) THEN alias ELSE "Anonymous"

(* the alias of messageData: alias || client?.alias || 'Anonymous' *)
ResolveAlias(alias, clients, c) ==
    IF Truthy(alias) THEN alias
    ELSE IF c \in DOMAIN clients /\ Truthy(clients[c].alias)
         THEN clients[c].alias
         ELSE "Anonymous"

(* a slip: the payload alias is never stored *)
StoreAliasNever(clients, c, alias) == clients

(* if (client && alias) { client.alias = alias; connectedClients.set(...) } *)
StoreAlias(clients, c, alias) ==
    IF c \in DOMAIN clients /\ Truthy(alias)
    THEN MapSet(clients, c, [clients[c] EXCEPT !.alias = alias])
    ELSE clients

(* a slip: message === '' without the trim *)
BlankWithoutTrim(m) == m = Str(0, 0, 0)

(* message.trim() === '' *)
BlankAfterTrim(m) == Trim(m) = Str(0, 0, 0)

(* a slip: message.length >= 1000 *)
TooLongOffByOne(m) == Length(m) >= MaxMessageLength

(* message.length > 1000 *)
TooLong(m) == Length(m) > MaxMessageLength

Accept == "accept"

(* the validation of a chat payload: Accept, or the text of the error event.
   A truthy message that is no string has no trim method: the TypeError is
   caught and reported as 'Failed to send message' *)
Validate(d) ==
    IF NoMessage(d) THEN "Message cannot be empty"
    ELSE IF ~d.message.str THEN "Failed to send message"
    ELSE IF BlankAfterTrim(d.message) THEN "Message cannot be empty"
    ELSE IF TooLong(d.message) THEN "Message too long"
    ELSE Accept

(* a slip: the alias is stored before the payload is validated *)
SessionsAliasFirst(clients, c, d) ==
    IF c \in DOMAIN clients /\ Truthy(Get(d, "alias"))
    THEN MapSet(clients, c, [clients[c] EXCEPT !.alias = d.alias])
    ELSE clients

(* the registry after a chat message: the alias is stored only once the
   payload has passed validation *)
SessionsAfterChat(clients, c, d) ==
    IF Validate(d) = Accept
    THEN StoreAlias(clients, c, Get(d, "alias"))
    ELSE clients

(* a slip: the clientId is always the socket's id *)
ResolveClientIdSocketOnly(clientId, c) == c

(* clientId || socket.id *)
ResolveClientId(clientId, c) == IF Truthy(clientId) THEN clientId ELSE c

(* a slip: a colour made up anew for the message *)
ResolveColorAnew(clients, c) == Hsl(0)

(* client?.color || userColor *)
ResolveColor(clients, c) ==
    IF c \in DOMAIN clients THEN clients[c].color ELSE userColor[c]

(* the messageData object of an accepted chat message *)
MessageData(c, d, clients, r) ==
    [id |-> MsgId(now, r),
     message |-> Trim(d.message),
     alias |-> ResolveAlias(Get(d, "alias"), clients, c),
     clientId |-> ResolveClientId(Get(d, "clientId"), c),
     timestamp |-> Iso(now),
     color |-> ResolveColor(clients, c)]

(* a slip: the message is kept from the sockets that are typing *)
ChatEmitToQuiet(sockets, c, data) ==
    IoEmit(sockets \ DOMAIN typingUsers, "chat message", data)

(* a slip: socket.broadcast.emit, so that the sender gets no echo *)
ChatEmitToOthers(sockets, c, data) ==
    [to |-> sockets \ {c}, ev |-> "chat message", data |-> data]

(* io.emit('chat message', messageData) *)
ChatEmit(sockets, c, data) == IoEmit(sockets, "chat message", data)

(* the body of the chat message listener *)
ChatListener(c, d) ==
    /\ last' = Handled("chat message", c, d)
    /\ connectedClients' = SessionsAfterChat(connectedClients, c, d)
    /\ IF Validate(d) = Accept
       THEN \E r \in Rands :
              sent' = << ChatEmit(open, c,
                             MessageData(c, d, connectedClients', r)) >>
       ELSE sent' = << SocketEmit(c, "error", [message |-> Validate(d)]) >>
    /\ UNCHANGED <<open, typingUsers, userColor, now>>

(* the validation of the first server of part_000, which has the length
   check of server.js *)
ValidateVariant1(d) ==
    IF NoMessage(d) THEN "Message cannot be empty"
    ELSE IF ~d.message.str THEN "Failed to send message"
    ELSE IF BlankAfterTrim(d.message) THEN "Message cannot be empty"
    ELSE IF TooLong(d.message) THEN "Message too long"
    ELSE Accept

(* the validation of the second server of part_000: the empty check only *)
ValidateVariant2(d) ==
    IF NoMessage(d) THEN "Message cannot be empty"
    ELSE IF ~d.message.str THEN "Failed to send message"
    ELSE IF BlankAfterTrim(d.message) THEN "Message cannot be empty"
    ELSE Accept

(* the body of the chat message listener of a server of part_000, whose
   validation has come to verdict; the rest of the listener is the text of
   server.js *)
ChatListenerOfVariant(verdict, c, d) ==
    /\ last' = Handled("chat message", c, d)
    /\ connectedClients' =
         IF verdict = Accept
         THEN StoreAlias(connectedClients, c, Get(d, "alias"))
         ELSE connectedClients
    /\ IF verdict = Accept
       THEN \E r \in Rands :
              sent' = << ChatEmit(open, c,
                             MessageData(c, d, connectedClients', r)) >>
       ELSE sent' = << SocketEmit(c, "error", [message |-> verdict]) >>
    /\ UNCHANGED <<open, typingUsers, userColor, now>>

(* socket.on('chat message') *)
ChatMessage(c, d) ==
    /\ Idle
    /\ c \in open
    /\ ChatListener(c, d)
    /\ UNCHANGED ext

(* a slip: the entry is kept under the clientId of the payload when that is
   the id of a socket *)
TrackTypingByClientId(typing, c, d) ==
    LET k == IF Get(d, "clientId") \in ConnIds THEN d.clientId ELSE c
    IN IF Has(d, "isTyping") /\ d.isTyping
       THEN MapSet(typing, k,
                   [x \in (DOMAIN d) \cap {"alias", "clientId"} |-> d[x]])
       ELSE MapDelete(typing, k)

(* a slip: the entry is not deleted when typing stops *)
TrackTypingNoClear(typing, c, d) ==
    IF Has(d, "isTyping") /\ d.isTyping
    THEN MapSet(typing, c,
                [k \in (DOMAIN d) \cap {"alias", "clientId"} |-> d[k]])
    ELSE typing

(* if (isTyping) typingUsers.set(socket.id, { alias, clientId })
   else typingUsers.delete(socket.id) *)
TrackTyping(typing, c, d) ==
    IF Has(d, "isTyping") /\ d.isTyping
    THEN MapSet(typing, c,
                [k \in (DOMAIN d) \cap {"alias", "clientId"} |-> d[k]])
    ELSE MapDelete(typing, c)

(* a slip: the relayed event carries the flag and the alias only *)
TypingDataNoClientId(d) ==
    [k \in (DOMAIN d) \cap {"isTyping", "alias"} |-> d[k]]

(* { isTyping, alias, clientId }: a field that is undefined is left out of
   the packet *)
TypingData(d) ==
    [k \in (DOMAIN d) \cap {"isTyping", "alias", "clientId"} |-> d[k]]

(* the body of the typing listener *)
TypingListener(c, d) ==
    /\ last' = Handled("typing", c, d)
    /\ typingUsers' = TrackTyping(typingUsers, c, d)
    /\ sent' = << BroadcastEmit(open, c, "user typing", TypingData(d)) >>
    /\ UNCHANGED <<open, connectedClients, userColor, now>>

(* socket.on('typing') *)
Typing(c, d) ==
    /\ Idle
    /\ c \in open
    /\ TypingListener(c, d)
    /\ UNCHANGED ext

(* a slip: the alias is written into the registry whether or not the
   connection has a session *)
SessionsAfterUpdateAlways(clients, c, d) ==
    MapSet(clients, c,
           IF c \in DOMAIN clients
           THEN [clients[c] EXCEPT !.alias = Get(d, "alias")]
           ELSE [id |-> c, color |-> Hsl(0), connectedAt |-> 0,
                 alias |-> Get(d, "alias")])

(* if (client) { client.alias = data.alias; connectedClients.set(...) } *)
SessionsAfterUpdate(clients, c, d) ==
    IF c \in DOMAIN clients
    THEN MapSet(clients, c, [clients[c] EXCEPT !.alias = Get(d, "alias")])
    ELSE clients

(* the body of the update alias listener *)
UpdateAliasListener(c, d) ==
    /\ last' = Handled("update alias", c, d)
    /\ connectedClients' = SessionsAfterUpdate(connectedClients, c, d)
    /\ sent' = <<>>
    /\ UNCHANGED <<open, typingUsers, userColor, now>>

(* socket.on('update alias') *)
UpdateAlias(c, d) ==
    /\ Idle
    /\ c \in open
    /\ UpdateAliasListener(c, d)
    /\ UNCHANGED ext

(* a slip: the session is never deleted *)
UnregisterNothing(clients, c) == clients

(* connectedClients.delete(socket.id) *)
Unregister(clients, c) == MapDelete(clients, c)

(* a slip: the typing entry outlives the socket *)
TypingKeptOnDisconnect(typing, c) == typing

(* typingUsers.delete(socket.id) of the disconnect listener *)
TypingAfterDisconnect(typing, c) == MapDelete(typing, c)

(* a slip: the count is read before the delete *)
CountBeforeDelete(before, after) == MapSize(before)

(* the count of the 'user count' event of the disconnect listener: the size
   read after the delete *)
CountOnDisconnect(before, after) == MapSize(after)

(* the body of the disconnect listener, for a socket that the transport has
   already taken out of the namespace and of its rooms *)
DisconnectListener(c) ==
    /\ last' = Handled("disconnect", c, <<>>)
    /\ typingUsers' = TypingAfterDisconnect(typingUsers, c)
    /\ connectedClients' = Unregister(connectedClients, c)
    /\ sent' =
         << BroadcastEmit(open', c, "user left",
                [id |-> c, message |-> "A user left the chat",
                 timestamp |-> Iso(now)]),
            IoEmit(open', "user count",
                   CountOnDisconnect(connectedClients, connectedClients')) >>
    /\ UNCHANGED <<userColor, now>>

(* socket.on('disconnect'): socket.io runs the listener once per socket, when
   it closes *)
Disconnect(c) ==
    /\ Idle
    /\ c \in open
    /\ open' = open \ {c}
    /\ DisconnectListener(c)
    /\ UNCHANGED ext

(* the disconnect signal delivered again for a socket that has disconnected
   (the listener and its closure are still there) *)
DisconnectAgain(c) ==
    /\ Idle
    /\ c \notin open
    /\ c \in DOMAIN userColor
    /\ open' = open
    /\ DisconnectListener(c)
    /\ UNCHANGED ext

(* socket.on('error'): logged only *)
SocketError(c) ==
    /\ Idle
    /\ c \in open
    /\ last' = Handled("error", c, <<>>)
    /\ sent' = <<>>
    /\ UNCHANGED <<open, connectedClients, typingUsers, userColor, now>>
    /\ UNCHANGED ext

Next ==
    \/ Tick
    \/ Return
    \/ \E c \in ConnIds : Connection(c)
    \/ \E c \in ConnIds, d \in ChatPayloads : ChatMessage(c, d)
    \/ \E c \in ConnIds, d \in TypingPayloads : Typing(c, d)
    \/ \E c \in ConnIds, d \in AliasPayloads : UpdateAlias(c, d)
    \/ \E c \in ConnIds : Disconnect(c)
    \/ \E c \in ConnIds : SocketError(c)

Spec == Init /\ [][Next]_vars

(* the relay with a transport that may repeat a disconnect signal *)
NextDup ==
    \/ Next
    \/ \E c \in ConnIds : DisconnectAgain(c)

SpecDup == Init /\ [][NextDup]_vars

(* a listener of a socket that has disconnected is run for an event that
   arrives late (the listeners and their closure are still there) *)
Late(c) ==
    /\ Idle
    /\ c \notin open
    /\ c \in DOMAIN userColor

LateChatMessage(c, d) == Late(c) /\ ChatListener(c, d) /\ UNCHANGED ext

LateTyping(c, d) == Late(c) /\ TypingListener(c, d) /\ UNCHANGED ext

LateUpdateAlias(c, d) == Late(c) /\ UpdateAliasListener(c, d) /\ UNCHANGED ext

(* the chat payloads of the late-event relay: a blank, an over-long and a
   valid message, with and without an alias *)
LatePayloads ==
    { d \in ChatPayloads :
        /\ Has(d, "message")
        /\ d.message \in {Str(2, 0, 0), Str(0, 2, 0),
                          Str(0, MaxMessageLength + 1, 0)}
        /\ ~Has(d, "id") }

(* the relay with a transport that may hand over an event of a socket after
   its disconnect *)
NextLate ==
    \/ Return
    \/ \E c \in ConnIds : Connection(c)
    \/ \E c \in ConnIds, d \in LatePayloads : ChatMessage(c, d)
    \/ \E c \in ConnIds, d \in TypingPayloads : Typing(c, d)
    \/ \E c \in ConnIds, d \in AliasPayloads : UpdateAlias(c, d)
    \/ \E c \in ConnIds : Disconnect(c)
    \/ \E c \in ConnIds, d \in LatePayloads : LateChatMessage(c, d)
    \/ \E c \in ConnIds, d \in TypingPayloads : LateTyping(c, d)
    \/ \E c \in ConnIds, d \in AliasPayloads : LateUpdateAlias(c, d)

SpecLate == Init /\ [][NextLate]_vars

(* the ids of the chat messages among the emissions s *)
IdsOf(s) == {s[i].data.id : i \in {j \in 1..Len(s) : s[j].ev = "chat message"}}

(* socket.on('chat message'), with the ids it broadcasts kept on record *)
ChatMessageIssued(c, d) ==
    /\ Idle
    /\ c \in open
    /\ ChatListener(c, d)
    /\ issued' = issued \cup IdsOf(sent')
    /\ UNCHANGED <<inbox, wire, seen, typed>>

(* the chat payloads of the relay that keeps the ids: a valid and a blank
   message *)
IdPayloads == Field("message", {Str(0, 2, 0), Str(2, 0, 0)}) \ {<<>>}

(* the relay with a record of the message ids it has broadcast *)
NextIds ==
    \/ Tick
    \/ Return
    \/ \E c \in ConnIds : Connection(c)
    \/ \E c \in ConnIds, d \in IdPayloads : ChatMessageIssued(c, d)
    \/ \E c \in ConnIds : Disconnect(c)

SpecIds == Init /\ [][NextIds]_vars

(* a chat message event without payload: the destructuring throws inside the
   try block, and the catch block tells the sender *)
ChatMessageNoPayload(c) ==
    /\ Idle
    /\ c \in open
    /\ last' = Handled("chat message", c, Undefined)
    /\ sent' = << SocketEmit(c, "error",
                     [message |-> "Failed to send message"]) >>
    /\ UNCHANGED <<open, connectedClients, typingUsers, userColor, now>>
    /\ UNCHANGED ext

(* a typing event without payload: the destructuring throws and the listener
   has no try block *)
TypingNoPayload(c) ==
    /\ Idle
    /\ c \in open
    /\ last' = Handled("uncaughtException", c, "typing")
    /\ sent' = <<>>
    /\ UNCHANGED <<open, connectedClients, typingUsers, userColor, now>>
    /\ UNCHANGED ext

(* an update alias event without payload: data.alias throws when the socket
   has a session, and the listener has no try block *)
UpdateAliasNoPayload(c) ==
    /\ Idle
    /\ c \in open
    /\ last' = IF c \in DOMAIN connectedClients
               THEN Handled("uncaughtException", c, "update alias")
               ELSE Handled("update alias", c, Undefined)
    /\ sent' = <<>>
    /\ UNCHANGED <<open, connectedClients, typingUsers, userColor, now>>
    /\ UNCHANGED ext

(* the relay with clients that may send an event without payload *)
NextMalformed ==
    \/ Return
    \/ \E c \in ConnIds : Connection(c)
    \/ \E c \in ConnIds, d \in IdPayloads : ChatMessage(c, d)
    \/ \E c \in ConnIds, d \in TypingPayloads : Typing(c, d)
    \/ \E c \in ConnIds, d \in AliasPayloads : UpdateAlias(c, d)
    \/ \E c \in ConnIds : Disconnect(c)
    \/ \E c \in ConnIds : ChatMessageNoPayload(c)
    \/ \E c \in ConnIds : TypingNoPayload(c)
    \/ \E c \in ConnIds : UpdateAliasNoPayload(c)

SpecMalformed == Init /\ [][NextMalformed]_vars

(* a slip: what is submitted last goes out first *)
SubmitAhead(w, emissions) ==
    [b \in ConnIds |->
       SelectSeq(emissions, LAMBDA e : b \in e.to) \o w[b]]

(* the emit calls hand their events to the transport, which keeps them in
   order for each recipient *)
Submit(w, emissions) ==
    [b \in ConnIds |->
       w[b] \o SelectSeq(emissions, LAMBDA e : b \in e.to)]

(* data.isTyping is truthy *)
SetsTypingOn(data) == Has(data, "isTyping") /\ data.isTyping

(* the clientId a client generates at mount and the alias it has chosen *)
ClientId(c) == IF c = "s1" THEN "c1" ELSE "c2"

ClientAlias(c) == IF c = "s1" THEN "Bob" ELSE "Eve"

(* the typing payloads the client sends: handleTyping, handleStopTyping *)
ClientTypingPayloads(a) ==
    {[isTyping |-> f, alias |-> ClientAlias(a), clientId |-> ClientId(a)] :
        f \in BOOLEAN}

(* io.on('connection'), with its events handed to the transport *)
ConnectionOnWire(c) ==
    /\ c \notin open
    /\ ConnectionListener(c)
    /\ wire' = Submit(wire, sent')
    /\ UNCHANGED <<inbox, seen, typed, issued>>

(* the client of socket a sends a typing event *)
ClientTyping(a, d) ==
    /\ a \in open
    /\ Len(typed[a]) < MaxTyped
    /\ typed' = [typed EXCEPT ![a] = Append(@, d.isTyping)]
    /\ inbox' = [inbox EXCEPT ![a] = Append(@, d)]
    /\ UNCHANGED <<open, connectedClients, typingUsers, userColor, now,
                   last, sent, wire, seen, issued>>

(* socket.on('typing'), run for the oldest typing event of socket a that
   has arrived, with its relay handed to the transport *)
TypingOnWire(a) ==
    /\ a \in open
    /\ inbox[a] # <<>>
    /\ TypingListener(a, Head(inbox[a]))
    /\ inbox' = [inbox EXCEPT ![a] = Tail(@)]
    /\ wire' = Submit(wire, sent')
    /\ UNCHANGED <<seen, typed, issued>>

(* the client of socket b receives the oldest event in flight to it *)
Observe(b) ==
    /\ wire[b] # <<>>
    /\ seen' = [seen EXCEPT ![b] = Append(@, Head(wire[b]))]
    /\ wire' = [wire EXCEPT ![b] = Tail(@)]
    /\ UNCHANGED <<open, connectedClients, typingUsers, userColor, now,
                   last, sent, inbox, typed, issued>>

(* the relay with its transport and the clients of its sockets *)
NextWire ==
    \/ \E c \in ConnIds : ConnectionOnWire(c)
    \/ \E a \in ConnIds : \E d \in ClientTypingPayloads(a) : ClientTyping(a, d)
    \/ \E a \in ConnIds : TypingOnWire(a)
    \/ \E b \in ConnIds : Observe(b)

SpecWire == Init /\ [][NextWire]_vars

(* a socket id is given to one connection only *)
ConnectOnce(c) ==
    /\ c \notin DOMAIN userColor
    /\ ConnectionOnWire(c)

(* socket.on('disconnect'), with its events handed to the transport; what
   was in flight to or from the closed socket is dropped *)
DisconnectOnWire(c) ==
    /\ c \in open
    /\ open' = open \ {c}
    /\ DisconnectListener(c)
    /\ wire' = [Submit(wire, sent') EXCEPT ![c] = <<>>]
    /\ inbox' = [inbox EXCEPT ![c] = <<>>]
    /\ UNCHANGED <<seen, typed, issued>>

(* the relay, its transport and its clients, with connections that come and
   go *)
NextClients ==
    \/ \E c \in ConnIds : ConnectOnce(c)
    \/ \E a \in ConnIds : \E d \in ClientTypingPayloads(a) : ClientTyping(a, d)
    \/ \E a \in ConnIds : TypingOnWire(a)
    \/ \E b \in ConnIds : Observe(b)
    \/ \E c \in ConnIds : DisconnectOnWire(c)

SpecClients == Init /\ [][NextClients]_vars

(* the state of the React client at mount: useState(0), useState(new Set()) *)
ClientInit == [onlineUsers |-> 0, typingUsers |-> {}]

(* the typingUsers the 'user typing' handler reads: the one of the render
   in which initializeSocket ran, the empty Set *)
ClosureTypingUsers == {}

(* the handlers of the client b for the events of the server *)
ClientHandle(b, st, e) ==
    CASE e.ev = "user joined" ->
           [st EXCEPT !.onlineUsers = @ + 1]
      [] e.ev = "user left" ->
           [st EXCEPT !.onlineUsers = IF @ - 1 > 0 THEN @ - 1 ELSE 0]
      [] e.ev = "user count" ->
           [st EXCEPT !.onlineUsers = e.data]
      [] e.ev = "user typing" ->
           IF Get(e.data, "clientId") # ClientId(b)
           THEN [st EXCEPT !.typingUsers =
                   IF SetsTypingOn(e.data)
                   THEN ClosureTypingUsers \cup {Get(e.data, "alias")}
                   ELSE ClosureTypingUsers \ {Get(e.data, "alias")}]
           ELSE st
      [] OTHER -> st

(* the state of the client b once it has handled the events s, in order *)
RECURSIVE ClientAfter(_, _)
ClientAfter(b, s) ==
    IF Len(s) = 0 THEN ClientInit
    ELSE ClientHandle(b, ClientAfter(b, SubSeq(s, 1, Len(s) - 1)), s[Len(s)])

----------------------------------------------------------------------------
(* Vocabulary of the properties *)

(* the events of the sequence s that are submitted to connection b, in the
   order of their submission *)
EventsFor(s, b) == SelectSeq(s, LAMBDA e : b \in e.to)

(* the names of the events of a sequence *)
Names(s) == [i \in 1..Len(s) |-> s[i].ev]

(* how many events named ev the sequence s submits to connection b *)
CountFor(s, b, ev) ==
    Cardinality({i \in 1..Len(s) : s[i].ev = ev /\ b \in s[i].to})

(* the payload has a message that is a string *)
IsText(d) == Has(d, "message") /\ d.message.str

(* the message field is absent, empty or only whitespace *)
BlankPayload(d) == ~Has(d, "message") \/ (d.message.str /\ d.message.core = 0)

(* the number of characters of the message of a text payload *)
Chars(d) == d.message.lead + d.message.core + d.message.trail

(* a valid chat message: non-empty after trimming, at most 1000 characters *)
ValidPayload(d) ==
    IsText(d) /\ d.message.core > 0 /\ Chars(d) <= MaxMessageLength

(* a chat message rejected by validation: blank or over-long *)
RejectedPayload(d) ==
    BlankPayload(d) \/ (IsText(d) /\ Chars(d) > MaxMessageLength)

(* the latest listener run submitted one error event, to connection c only,
   and nothing else *)
ErrorOnlyTo(s, c) ==
    /\ Len(s) = 1
    /\ s[1].ev = "error"
    /\ s[1].to = {c}

LastIs(ev) == last.ev = ev

(* an alias that is there and is not the empty string *)
NonEmpty(v) == v \notin {Undefined, ""}

(* the step is a listener run that broadcast one chat message *)
BroadcastStep == 
    /\ last'.ev = "chat message"
    /\ Len(sent') = 1
    /\ sent'[1].ev = "chat message"

----------------------------------------------------------------------------
(* C1: after any sequence of connect and disconnect events, interleaved with
   any chat message, typing and update alias events, the size of
   connectedClients equals the number of connections that have connected and
   not yet disconnected. *)
RegistryCountsOpenConnections ==
    /\ MapSize(connectedClients) = Cardinality(open)
    /\ DOMAIN connectedClients = open

(* a connection has disconnected while another one, which has stored an
   alias, stays connected *)
WitnessRegistryCount ==
    /\ LastIs("disconnect")
    /\ Cardinality(open) = 1
    /\ \E c \in open : connectedClients[c].alias = "Bob"

(* C2: a valid chat message sent by a registered connection is delivered
   exactly once to every registered connection, the sender included, and its
   id and timestamp are the server's, never the payload's. *)
ValidMessageReachesAllOnce ==
    (/\ LastIs("chat message")
     /\ ValidPayload(last.data)
     /\ last.conn \in DOMAIN connectedClients)
    => /\ \A b \in DOMAIN connectedClients :
            CountFor(sent, b, "chat message") = 1
       /\ \A i \in 1..Len(sent) :
            sent[i].ev = "chat message" =>
              /\ \E r \in Rands : sent[i].data.id = MsgId(now, r)
              /\ sent[i].data.timestamp = Iso(now)

(* a valid message whose payload carries an id and a timestamp that differ
   from the server's has been handled with two connections registered *)
WitnessValidMessage ==
    /\ LastIs("chat message")
    /\ ValidPayload(last.data)
    /\ Has(last.data, "id")
    /\ last.data.id.ms # now
    /\ MapSize(connectedClients) = 2

(* C3: a chat message whose message field is absent, empty or only whitespace
   produces exactly one error event, to the sender only, and no chat message
   event to anyone. *)
BlankMessageYieldsUnicastError ==
    (LastIs("chat message") /\ BlankPayload(last.data))
    => /\ ErrorOnlyTo(sent, last.conn)
       /\ \A b \in ConnIds : CountFor(sent, b, "chat message") = 0

(* a whitespace-only message from one of two registered connections *)
WitnessBlankMessage ==
    /\ LastIs("chat message")
    /\ Has(last.data, "message")
    /\ IsText(last.data)
    /\ last.data.message.core = 0
    /\ last.data.message.lead > 0
    /\ MapSize(connectedClients) = 2
    /\ Len(sent) = 1

(* C4: a non-blank message of more than 1000 characters (1001 in particular)
   is rejected with an error event to the sender only and not broadcast; one
   of at most 1000 characters (1000 in particular) is accepted and
   broadcast. *)
LengthLimitIsExactly1000 ==
    (/\ LastIs("chat message")
     /\ IsText(last.data)
     /\ last.data.message.core > 0)
    => IF Chars(last.data) > MaxMessageLength
       THEN /\ ErrorOnlyTo(sent, last.conn)
            /\ sent[1].data.message = "Message too long"
       ELSE /\ Len(sent) = 1
            /\ sent[1].ev = "chat message"
            /\ sent[1].to = open

(* a message of exactly 1000 characters has been broadcast to two
   connections *)
WitnessLengthLimit ==
    /\ LastIs("chat message")
    /\ IsText(last.data)
    /\ last.data.message.core > 0
    /\ Chars(last.data) = MaxMessageLength
    /\ Len(sent) = 1
    /\ sent[1].ev = "chat message"
    /\ Cardinality(sent[1].to) = 2

(* C5: a chat message rejected by validation changes no relay state: the
   sender's stored alias is not overwritten even when the payload carries an
   alias, and the registry and the typing tracker stay as they were. *)
RejectedMessageChangesNothing ==
    [][(last'.ev = "chat message" /\ RejectedPayload(last'.data))
       => /\ connectedClients' = connectedClients
          /\ typingUsers' = typingUsers
          /\ open' = open]_vars

(* an over-long message carrying an alias other than the stored one has been
   rejected while a typing entry exists *)
WitnessRejectedMessage ==
    /\ LastIs("chat message")
    /\ IsText(last.data)
    /\ Chars(last.data) > MaxMessageLength
    /\ Has(last.data, "alias")
    /\ last.data.alias = "Bob"
    /\ connectedClients[last.conn].alias # "Bob"
    /\ typingUsers # <<>>
    /\ ErrorOnlyTo(sent, last.conn)

(* C6: when connection A disconnects, every other registered connection B
   receives exactly one user left event followed by exactly one user count
   event, whose count is the registry size after A's removal, the previous
   size minus one. *)
DisconnectNotifiesOthersOnce ==
    [][(last'.ev = "disconnect" /\ last'.conn \in open)
       => \A b \in (DOMAIN connectedClients) \ {last'.conn} :
            LET got == EventsFor(sent', b) IN
            /\ Names(got) = <<"user left", "user count">>
            /\ got[1].data.id = last'.conn
            /\ got[2].data = MapSize(connectedClients')
            /\ got[2].data = MapSize(connectedClients) - 1]_vars

(* a connection has disconnected and the other one has been told so *)
WitnessDisconnectNotice ==
    /\ LastIs("disconnect")
    /\ Cardinality(open) = 1
    /\ last.conn \notin open
    /\ \E b \in open : Len(EventsFor(sent, b)) = 2

(* C7: a disconnect signal delivered again for a connection that has already
   disconnected emits no user left and no user count event to any connection
   and leaves the registry and the typing tracker unchanged. *)
RepeatedDisconnectIsSilent ==
    [][(last'.ev = "disconnect" /\ last'.conn \notin open)
       => /\ \A i \in 1..Len(sent') :
               sent'[i].ev \in {"user left", "user count"} => sent'[i].to = {}
          /\ connectedClients' = connectedClients
          /\ typingUsers' = typingUsers]_vars

(* C8: on connect the new connection is registered first, then a user count
   event carrying the registry size with the new connection in it goes to
   every registered connection, the new one included, and a user joined
   notice goes to every registered connection but the new one. *)
ConnectAnnouncesCountAndJoin ==
    LastIs("connection")
    => /\ last.conn \in DOMAIN connectedClients
       /\ Len(sent) = 2
       /\ sent[1].ev = "user count"
       /\ sent[1].to = DOMAIN connectedClients
       /\ sent[1].data = MapSize(connectedClients)
       /\ sent[2].ev = "user joined"
       /\ sent[2].to = (DOMAIN connectedClients) \ {last.conn}
       /\ sent[2].data.id = last.conn

(* a second connection has joined a registered one *)
WitnessConnect ==
    /\ LastIs("connection")
    /\ MapSize(connectedClients) = 2
    /\ Len(sent) = 2
    /\ sent[2].to # {}

(* C9, as amended: the alias of a broadcast chat message is the payload
   alias when the payload has a non-empty one, otherwise the sender's stored
   session alias when that is non-empty, otherwise "Anonymous". *)
AliasPrecedence ==
    [][BroadcastStep
       => LET d == last'.data
              stored == connectedClients[last'.conn].alias
          IN sent'[1].data.alias =
               IF NonEmpty(Get(d, "alias")) THEN d.alias
               ELSE IF NonEmpty(stored) THEN stored
               ELSE "Anonymous"]_vars

(* C9, as stated: the payload alias whenever the payload has one. *)
AliasPrecedenceAsStated ==
    [][BroadcastStep
       => LET d == last'.data
              stored == connectedClients[last'.conn].alias
          IN sent'[1].data.alias =
               IF Has(d, "alias") THEN d.alias
               ELSE IF NonEmpty(stored) THEN stored
               ELSE "Anonymous"]_vars

(* a message whose payload alias is the empty string has been broadcast under
   the alias stored in the session *)
WitnessAliasPrecedence ==
    /\ LastIs("chat message")
    /\ Has(last.data, "alias")
    /\ last.data.alias = ""
    /\ Len(sent) = 1
    /\ sent[1].ev = "chat message"
    /\ sent[1].data.alias = "Bob"

(* the three parts of the sticky alias, for connection c over one step, with
   `carries` saying when a payload counts as carrying an alias *)
StickyStep(c, carries(_)) ==
    LET mine == BroadcastStep /\ last'.conn = c
        d == last'.data
        before == connectedClients[c].alias
        after == connectedClients'[c].alias
    IN /\ (mine /\ carries(d)) => after = d.alias
       /\ (mine /\ ~Has(d, "alias") /\ NonEmpty(before))
            => (sent'[1].data.alias = before /\ after = before)
       /\ after # before
            => \/ mine /\ carries(d)
               \/ last'.ev = "update alias" /\ last'.conn = c

CarriesNonEmptyAlias(d) == NonEmpty(Get(d, "alias"))

CarriesAlias(d) == Has(d, "alias")

(* C10, as amended: after an accepted chat message with a non-empty alias X
   the connection's stored alias is X; a later message of that connection
   that omits the alias is broadcast with the stored alias and leaves it as
   it is; and the stored alias changes only by an accepted message with a
   non-empty alias or by an update alias event of that connection. *)
StickyAlias ==
    [][\A c \in (DOMAIN connectedClients) \cap (DOMAIN connectedClients') :
         StickyStep(c, CarriesNonEmptyAlias)]_vars

(* C10, as stated: any alias X a payload has, the empty one included. *)
StickyAliasAsStated ==
    [][\A c \in (DOMAIN connectedClients) \cap (DOMAIN connectedClients') :
         StickyStep(c, CarriesAlias)]_vars

(* a message without alias has been broadcast under the alias "Bob" that an
   earlier message of the connection stored *)
WitnessStickyAlias ==
    /\ LastIs("chat message")
    /\ ~Has(last.data, "alias")
    /\ Len(sent) = 1
    /\ sent[1].ev = "chat message"
    /\ sent[1].data.alias = "Bob"
    /\ connectedClients[last.conn].alias = "Bob"

(* C11, as amended: the clientId of a broadcast chat message is the payload
   clientId when the payload has a non-empty one, otherwise the id of the
   sending connection. *)
ClientIdPrecedence ==
    (LastIs("chat message") /\ Len(sent) = 1 /\ sent[1].ev = "chat message")
    => sent[1].data.clientId =
         IF NonEmpty(Get(last.data, "clientId")) THEN last.data.clientId
         ELSE last.conn

(* C11, as stated: the payload clientId whenever the payload has one. *)
ClientIdPrecedenceAsStated ==
    (LastIs("chat message") /\ Len(sent) = 1 /\ sent[1].ev = "chat message")
    => sent[1].data.clientId =
         IF Has(last.data, "clientId") THEN last.data.clientId
         ELSE last.conn

(* a message whose payload clientId is the empty string has been broadcast
   under the id of the sending connection *)
WitnessClientIdPrecedence ==
    /\ LastIs("chat message")
    /\ Has(last.data, "clientId")
    /\ last.data.clientId = ""
    /\ Len(sent) = 1
    /\ sent[1].ev = "chat message"
    /\ sent[1].data.clientId = last.conn

(* the payload asks to set the typing entry *)
SetsTyping(d) == Has(d, "isTyping") /\ d.isTyping

(* the fields a typing payload passes through *)
TypingFields == {"isTyping", "alias", "clientId"}

(* C12: every typing event of connection A is relayed as one user typing
   event, with isTyping, alias and clientId as the payload has them, to every
   registered connection except A, and A gets no user typing event from it. *)
TypingRelayedToOthers ==
    LastIs("typing")
    => /\ Len(sent) = 1
       /\ sent[1].ev = "user typing"
       /\ sent[1].to = (DOMAIN connectedClients) \ {last.conn}
       /\ CountFor(sent, last.conn, "user typing") = 0
       /\ \A k \in TypingFields :
            /\ Has(sent[1].data, k) <=> Has(last.data, k)
            /\ Has(last.data, k) => sent[1].data[k] = last.data[k]

(* a typing event with alias and clientId has been relayed to the other
   registered connection *)
WitnessTypingRelayed ==
    /\ LastIs("typing")
    /\ Has(last.data, "clientId")
    /\ SetsTyping(last.data)
    /\ MapSize(connectedClients) = 2
    /\ Len(sent) = 1
    /\ Cardinality(sent[1].to) = 1

(* C14: an update alias event submits no outbound event; it overwrites the
   stored alias of the sender's session when the sender is registered and
   changes nothing when it is not; the other sessions, the typing tracker and
   the set of open connections stay as they were. *)
UpdateAliasOnlyOverwritesAlias ==
    [][last'.ev = "update alias"
       => /\ sent' = <<>>
          /\ typingUsers' = typingUsers
          /\ open' = open
          /\ DOMAIN connectedClients' = DOMAIN connectedClients
          /\ \A b \in DOMAIN connectedClients :
               connectedClients'[b] =
                 IF b = last'.conn
                 THEN [connectedClients[b] EXCEPT
                          !.alias = Get(last'.data, "alias")]
                 ELSE connectedClients[b]]_vars

(* an update alias event of a connection that is not registered has been
   handled while the other connection is registered *)
WitnessUpdateAlias ==
    /\ LastIs("update alias")
    /\ last.conn \notin DOMAIN connectedClients
    /\ Has(last.data, "alias")
    /\ last.data.alias = "Bob"
    /\ MapSize(connectedClients) = 1
    /\ sent = <<>>

(* the entry e is the one the payload d would set *)
EntryOf(e, d) ==
    \A k \in {"alias", "clientId"} :
       /\ Has(e, k) <=> Has(d, k)
       /\ Has(d, k) => e[k] = d[k]

(* C15: step by step, connection c has a typing entry after its own typing
   event exactly when the event had isTyping true, has none after its
   disconnect, and keeps or lacks it as before over every other step; setting
   an entry that is already there and clearing one that is not change
   nothing. *)
TypingEntryFollowsLastEvent ==
    [][\A c \in ConnIds :
         LET d == last'.data
             had == c \in DOMAIN typingUsers
             has == c \in DOMAIN typingUsers'
         IN IF last'.ev = "typing" /\ last'.conn = c
            THEN /\ has <=> SetsTyping(d)
                 /\ (SetsTyping(d) /\ had /\ EntryOf(typingUsers[c], d))
                      => typingUsers' = typingUsers
                 /\ (~SetsTyping(d) /\ ~had) => typingUsers' = typingUsers
            ELSE IF last'.ev = "disconnect" /\ last'.conn = c
            THEN ~has
            ELSE /\ has <=> had
                 /\ has => typingUsers'[c] = typingUsers[c]]_vars

(* a typing event with isTyping false has left a connection without entry
   while the other connection still has its entry *)
WitnessTypingEntry ==
    /\ LastIs("typing")
    /\ Has(last.data, "isTyping")
    /\ ~last.data.isTyping
    /\ last.conn \notin DOMAIN typingUsers
    /\ \E b \in open \ {last.conn} : b \in DOMAIN typingUsers

(* C16: an inbound chat message, typing or update alias event of a
   connection that is not in the registry changes neither the registry nor the
   typing tracker and submits no outbound event. *)
UnregisteredEventIsIgnored ==
    [][(/\ last'.ev \in {"chat message", "typing", "update alias"}
        /\ last'.conn \notin DOMAIN connectedClients)
       => /\ connectedClients' = connectedClients
          /\ typingUsers' = typingUsers
          /\ \A i \in 1..Len(sent') : sent'[i].to \cap open' = {}]_vars

(* C18: every chat message event that is broadcast carries a text without
   leading or trailing whitespace, of 1 to 1000 characters. *)
BroadcastTextIsTrimmedAndBounded ==
    \A i \in 1..Len(sent) :
       sent[i].ev = "chat message"
       => LET m == sent[i].data.message IN
          /\ m.str
          /\ m.lead = 0
          /\ m.trail = 0
          /\ Length(m) >= 1
          /\ Length(m) <= MaxMessageLength

(* a message of 1000 characters with whitespace on both sides has been
   broadcast as its 998 inner characters *)
WitnessBroadcastText ==
    /\ LastIs("chat message")
    /\ IsText(last.data)
    /\ last.data.message.lead > 0
    /\ last.data.message.trail > 0
    /\ Chars(last.data) = MaxMessageLength
    /\ Len(sent) = 1
    /\ sent[1].ev = "chat message"
    /\ Length(sent[1].data.message) = MaxMessageLength - 2

(* C20: the color of a session is the one assigned at connect and no step
   changes it, and every chat message broadcast for a connection carries the
   color its session has held since connect. *)
SessionColorIsFixed ==
    [][/\ \A c \in (DOMAIN connectedClients) \cap (DOMAIN connectedClients') :
            connectedClients'[c].color = connectedClients[c].color
       /\ \A c \in DOMAIN connectedClients' :
            connectedClients'[c].color = userColor'[c]
       /\ (BroadcastStep /\ last'.conn \in DOMAIN connectedClients)
            => sent'[1].data.color = connectedClients[last'.conn].color]_vars

(* a connection whose alias has been changed to "Bob" has broadcast a message
   under the color of its session, which is not the other session's *)
WitnessSessionColor ==
    /\ LastIs("chat message")
    /\ Len(sent) = 1
    /\ sent[1].ev = "chat message"
    /\ last.conn \in DOMAIN connectedClients
    /\ connectedClients[last.conn].alias = "Bob"
    /\ sent[1].data.color = connectedClients[last.conn].color
    /\ \E b \in (DOMAIN connectedClients) \ {last.conn} :
          connectedClients[b].color # sent[1].data.color

(* C17: no inbound event without payload, or without some of its fields,
   makes a listener throw: the listener completes and the relay goes on. *)
MalformedPayloadNeverRaises == ~Crashed

(* C19: no chat message is broadcast under an id that an earlier broadcast
   chat message carried. *)
MessageIdsAreUnique ==
    [][BroadcastStep => sent'[1].data.id \notin issued]_vars

(* the isTyping flags of the user typing events of a sequence of events *)
Flags(s) ==
    LET t == SelectSeq(s, LAMBDA e : e.ev = "user typing")
    IN [i \in 1..Len(t) |-> t[i].data.isTyping]

(* the isTyping flags of a sequence of typing payloads *)
PayloadFlags(q) == [i \in 1..Len(q) |-> q[i].isTyping]

(* s is the end of t *)
IsSuffix(s, t) ==
    /\ Len(s) <= Len(t)
    /\ SubSeq(t, Len(t) - Len(s) + 1, Len(t)) = s

(* C13: for a sender A and another client B, the isTyping flags B has
   observed, then those in flight to B, then those of A's events the relay
   has not handled yet, are the latest flags A sent, in the order A sent
   them: B observes the user typing events in the order of A's typing
   events, and what is submitted for B reaches it in submission order. *)
TypingOrderPreserved ==
    \A a \in ConnIds : \A b \in ConnIds \ {a} :
       IsSuffix(Flags(seen[b]) \o Flags(wire[b]) \o PayloadFlags(inbox[a]),
                typed[a])

(* a client has sent typing true and then typing false, and the other
   client has observed the two user typing events *)
WitnessTypingOrder ==
    \E a \in ConnIds : \E b \in ConnIds \ {a} :
       /\ typed[a] = <<TRUE, FALSE>>
       /\ Flags(seen[b]) = <<TRUE, FALSE>>

(* C21: a chat message, accepted or rejected, leaves the typing tracker as it
   was, and the recipients and the content of what it submits are given by
   the payload, the sender, the registry and the clock alone: an accepted
   message goes to every open socket, a rejected one yields an error to the
   sender. *)
ChatIgnoresTypingTracker ==
    [][last'.ev = "chat message"
       => LET d == last'.data
              c == last'.conn
          IN /\ typingUsers' = typingUsers
             /\ Len(sent') = 1
             /\ IF ValidPayload(d)
                THEN /\ sent'[1].ev = "chat message"
                     /\ sent'[1].to = open
                     /\ sent'[1].data.message = Str(0, d.message.core, 0)
                     /\ sent'[1].data.timestamp = Iso(now)
                     /\ sent'[1].data.id.ms = now
                     /\ sent'[1].data.color = connectedClients[c].color
                     /\ sent'[1].data.alias =
                          IF NonEmpty(Get(d, "alias")) THEN d.alias
                          ELSE IF NonEmpty(connectedClients[c].alias)
                               THEN connectedClients[c].alias
                               ELSE "Anonymous"
                     /\ sent'[1].data.clientId =
                          IF NonEmpty(Get(d, "clientId")) THEN d.clientId
                          ELSE c
                ELSE ErrorOnlyTo(sent', c)]_vars

(* a chat message has been broadcast to both connections while both have a
   typing entry *)
WitnessChatWhileTyping ==
    /\ LastIs("chat message")
    /\ Len(sent) = 1
    /\ sent[1].ev = "chat message"
    /\ sent[1].to = ConnIds
    /\ DOMAIN typingUsers = ConnIds

(* C22: the connection ids of the typing tracker are all in the registry,
   and when no connection is open both maps are empty. *)
TypingTrackerWithinRegistry ==
    /\ DOMAIN typingUsers \subseteq DOMAIN connectedClients
    /\ open = {} => (typingUsers = <<>> /\ connectedClients = <<>>)

(* the last of two connections has disconnected, and both maps are empty *)
WitnessAllDisconnected ==
    /\ LastIs("disconnect")
    /\ open = {}
    /\ DOMAIN userColor = ConnIds
    /\ typingUsers = <<>>
    /\ connectedClients = <<>>

(* C26: an inbound event of connection A, whatever alias or clientId it
   carries, leaves the registry session and the typing entry of every other
   connection B as they were: none is added, removed or modified. *)
SessionsAreIsolated ==
    [][last'.ev \in {"chat message", "typing", "update alias", "disconnect"}
       => \A b \in ConnIds \ {last'.conn} :
            /\ (b \in DOMAIN connectedClients')
                 <=> (b \in DOMAIN connectedClients)
            /\ b \in DOMAIN connectedClients
                 => connectedClients'[b] = connectedClients[b]
            /\ (b \in DOMAIN typingUsers') <=> (b \in DOMAIN typingUsers)
            /\ b \in DOMAIN typingUsers
                 => typingUsers'[b] = typingUsers[b]]_vars

(* a typing event that stops typing under the clientId "s2" has been handled
   for connection s1 while s2 has a typing entry and a session *)
WitnessIsolation ==
    /\ LastIs("typing")
    /\ last.conn = "s1"
    /\ Has(last.data, "clientId")
    /\ last.data.clientId = "s2"
    /\ ~SetsTyping(last.data)
    /\ "s2" \in DOMAIN typingUsers
    /\ "s2" \in DOMAIN connectedClients

(* C24: the three servers agree on the socket protocol: whenever server.js
   handles a chat message, each of the two servers of part_000 would, from
   the same state and for the same payload, reach the same registry and
   typing tracker and submit the same events to the same recipients (their
   connection, typing, update alias and disconnect listeners are the text of
   server.js). *)
VariantsAgree ==
    [][last'.ev = "chat message"
       => /\ ChatListenerOfVariant(ValidateVariant1(last'.data),
                                   last'.conn, last'.data)
          /\ ChatListenerOfVariant(ValidateVariant2(last'.data),
                                   last'.conn, last'.data)]_vars

(* C23: once a connected client has handled every event the server has sent
   it, the number of online users it shows is the size of the registry. *)
ShownCountIsRegistrySize ==
    \A b \in open :
       wire[b] = <<>>
       => ClientAfter(b, seen[b]).onlineUsers = MapSize(connectedClients)

(* C25: once A has disconnected and a remaining client has handled every
   event sent to it, that client's typing indicator does not list A's
   alias. *)
DepartedIsNotShownTyping ==
    \A a \in (DOMAIN userColor) \ open : \A b \in open :
       wire[b] = <<>>
       => ClientAlias(a) \notin ClientAfter(b, seen[b]).typingUsers

====
